---- MODULE Spec2Model ----
(***************************************************************************)
(* Lana App API (FastAPI + SQLAlchemy): the derived-state computations of  *)
(* the routers (due dates of fixed payments, budget status, dashboard      *)
(* aggregates) and the budget / transaction handlers that feed them.       *)
(*                                                                         *)
(* Amounts are Python floats in the source; here they are integers and a   *)
(* quotient is kept as an exact fraction [num, den], so the thresholds are *)
(* compared exactly.  An instant is a naive datetime                       *)
(* [year, month, day, secs] with secs the seconds since midnight.          *)
(*                                                                         *)
(* Specifications:                                                         *)
(*   SpecDue    calculate_next_due_date applied to any (due_day, now)      *)
(*   SpecEval   get_payment_status / calculate_budget_status on any input  *)
(*   Spec       transaction handlers and the dashboard, one request at a   *)
(*              time                                                       *)
(*   SpecBudget budget handlers, one request at a time                     *)
(*   SpecRace   create_budget requests whose query and commit interleave   *)
(*   SpecCrud   the writing handlers of the four tables, one request at a  *)
(*              time                                                       *)
(*   SpecRead   the reading handlers over stored tables, one request at a  *)
(*              time                                                       *)
(*   SpecSettings  notification-settings requests whose lookup and commit   *)
(*              interleave                                                 *)
(***************************************************************************)
EXTENDS Integers, Sequences, FiniteSets, TLC

VARIABLES
    now,            \* the value datetime.now() returns
    payment,        \* SpecDue: the fixed payment under evaluation
    evalIn,         \* SpecEval: the arguments of the status function
    transactions,   \* table "transactions": sequence of rows in id order
    budgets,        \* table "budgets": sequence of rows in id order
    fixed_payments, \* table "fixed_payments": sequence of rows in id order
    notifications,  \* table "notifications": sequence of rows in id order
    notification_settings,  \* table "notification_settings", in id order
    nextId,         \* next primary key of each table
    pc,             \* SpecRace, SpecSettings: position of each in-flight request
    resp            \* what the last call returned

vars == <<now, payment, evalIn, transactions, budgets, fixed_payments, notifications,
          notification_settings, nextId, pc, resp>>

----------------------------------------------------------------------------
(* Bounds *)

FirstYear == 2023
YearSpan == 1
MaxDays == 35
MaxLimit == 10
MaxSpent == 12
MaxTx == 2
MaxBudgets == 2
NumRequests == 2

MaxRows == 2

----------------------------------------------------------------------------
(* Calendar: calendar.monthrange, datetime construction, comparison and    *)
(* date subtraction as the standard library computes them.                 *)

Min(a, b) == IF a <= b THEN a ELSE b

Abs(x) == IF x < 0 THEN -x ELSE x

\* variant: the Julian rule, every fourth year
isleap_nocentury(year) == year % 4 = 0

isleap(year) == year % 4 = 0 /\ (year % 100 # 0 \/ year % 400 = 0)

mdays(month) ==
    CASE month = 2 -> 28
      [] month \in {4, 6, 9, 11} -> 30
      [] OTHER -> 31

\* calendar.monthrange(year, month)[1]
monthrange(year, month) ==
    mdays(month) + (IF month = 2 /\ isleap(year) THEN 1 ELSE 0)

\* datetime(year, month, day) raises ValueError unless the day exists
ValidDate(year, month, day) ==
    /\ month \in 1..12
    /\ day >= 1
    /\ day <= monthrange(year, month)

\* datetime(year, month, day): midnight of that day
datetime(year, month, day) ==
    [year |-> year, month |-> month, day |-> day, secs |-> 0]

\* a <= b on naive datetimes
DatetimeLE(a, b) ==
    \/ a.year < b.year
    \/ a.year = b.year /\ a.month < b.month
    \/ a.year = b.year /\ a.month = b.month /\ a.day < b.day
    \/ a.year = b.year /\ a.month = b.month /\ a.day = b.day /\ a.secs <= b.secs

RECURSIVE days_before_month(_, _)
days_before_month(year, month) ==
    IF month <= 1 THEN 0
    ELSE days_before_month(year, month - 1) + monthrange(year, month - 1)

days_before_year(year) ==
    LET y == year - 1
    IN  y * 365 + (y \div 4) - (y \div 100) + (y \div 400)

\* date.toordinal()
toordinal(d) == days_before_year(d.year) + days_before_month(d.year, d.month) + d.day

\* (a.date() - b.date()).days
DateDiffDays(a, b) == toordinal(a) - toordinal(b)

CenturyYears == {2000, 2100}

Years == (FirstYear .. FirstYear + YearSpan) \cup CenturyYears

TimesOfDay == {0, 43200}

Instants ==
    {i \in [year : Years, month : 1..12, day : 1..31, secs : TimesOfDay] :
        i.day <= monthrange(i.year, i.month)}

----------------------------------------------------------------------------
(* Fixed payments: routers/fixed_payments.py *)

\* variant: December rolls to January of the same year
NextMonth_noyear(year, month) ==
    IF month = 12 THEN [year |-> year, month |-> 1]
    ELSE [year |-> year, month |-> month + 1]

\* lines 33-37
NextMonth(year, month) ==
    IF month = 12 THEN [year |-> year + 1, month |-> 1]
    ELSE [year |-> year, month |-> month + 1]

\* variant: next_due < now
Passed_strict(next_due, t) == DatetimeLE(next_due, t) /\ next_due # t

\* line 32: next_due <= now
Passed(next_due, t) == DatetimeLE(next_due, t)

\* variant: no clamping
Clamp_none(due_day, max_day) == due_day

\* lines 26 and 40: min(due_day, max_day)
Clamp(due_day, max_day) == Min(due_day, max_day)

\* variant: no roll-over, the due date of the current month even when passed
calculate_next_due_date_thismonth(due_day, t) ==
    datetime(t.year, t.month, Clamp(due_day, monthrange(t.year, t.month)))

calculate_next_due_date(due_day, t) ==
    LET year == t.year
        month == t.month
        max_day == monthrange(year, month)
        actual_due_day == Clamp(due_day, max_day)
    IN  IF ~ValidDate(year, month, actual_due_day)
        THEN datetime(year, month, max_day)            \* except ValueError
        ELSE LET next_due == datetime(year, month, actual_due_day)
             IN  IF Passed(next_due, t)
                 THEN LET nm == NextMonth(year, month)
                          max_day2 == monthrange(nm.year, nm.month)
                          actual2 == Clamp(due_day, max_day2)
                      IN  IF ~ValidDate(nm.year, nm.month, actual2)
                          THEN datetime(nm.year, nm.month, max_day2)
                          ELSE datetime(nm.year, nm.month, actual2)
                 ELSE next_due

\* variant: warning only below two days
get_payment_status_shifted(is_active, days_until_due) ==
    IF ~is_active THEN "inactive"
    ELSE IF days_until_due < 0 THEN "overdue"
    ELSE IF days_until_due = 0 THEN "due"
    ELSE IF days_until_due < 2 THEN "warning"
    ELSE "upcoming"

get_payment_status(is_active, days_until_due) ==
    IF ~is_active THEN "inactive"
    ELSE IF days_until_due < 0 THEN "overdue"
    ELSE IF days_until_due = 0 THEN "due"
    ELSE IF days_until_due <= 2 THEN "warning"
    ELSE "upcoming"

\* schemas.py lines 105-109: validate_due_day
validate_due_day(v) == 1 <= v /\ v <= 31

----------------------------------------------------------------------------
(* Budget status: routers/budgets.py *)

ZeroDivisionError == [num |-> 0, den |-> 0]

\* a / b on floats, kept as an exact fraction with a positive denominator
TrueDiv(a, b) ==
    IF b = 0 THEN ZeroDivisionError
    ELSE IF b > 0 THEN [num |-> a, den |-> b]
    ELSE [num |-> -a, den |-> -b]

Times(q, k) == IF q.den = 0 THEN q ELSE [num |-> q.num * k, den |-> q.den]

Zero == [num |-> 0, den |-> 1]

\* q >= k for a fraction q
FracGE(q, k) == q.num >= k * q.den

\* variant: no guard on budget.amount
Percentage_unguarded(spent_amount, amount) == Times(TrueDiv(spent_amount, amount), 100)

\* lines 20 and 61: (spent_amount / budget.amount) * 100 if budget.amount > 0 else 0
Percentage(spent_amount, amount) ==
    IF amount > 0 THEN Times(TrueDiv(spent_amount, amount), 100) ELSE Zero

\* lines 22-27
Classify(percentage) ==
    IF percentage.den = 0 THEN "ZeroDivisionError"
    ELSE IF FracGE(percentage, 100) THEN "exceeded"
    ELSE IF FracGE(percentage, 80) THEN "warning"
    ELSE "normal"

calculate_budget_status(amount, spent_amount) ==
    Classify(Percentage(spent_amount, amount))

----------------------------------------------------------------------------
(* Tables and queries: models.py, and the SQLAlchemy queries of the routers. *)
(* A row of transactions is [id, user_id, amount, category,                 *)
(* transaction_type, date]; a row of budgets is [id, user_id, category,     *)
(* amount, month, year].  The description / name / timestamp columns are    *)
(* left out: no query or computation reads them.  An Optional request       *)
(* field is <<>> when absent and <<v>> when it carries v.                   *)

Users == {1, 2}

Opt(S) == {<<>>} \cup {<<x>> : x \in S}

RECURSIVE SumAmount(_)
\* func.sum(Transaction.amount) over the selected rows; NULL (no row) `or 0`
SumAmount(rows) ==
    IF rows = <<>> THEN 0 ELSE Head(rows).amount + SumAmount(Tail(rows))

InPeriod(row, month, year) == row.date.month = month /\ row.date.year = year

\* variant: no owner filter
Owned_any(row, user) == TRUE

\* Transaction.user_id == current_user.id
Owned(row, user) == row.user_id = user

\* rows of one user and one type in a period (analytics.py lines 37-49)
TypeRows(user, type, month, year) ==
    SelectSeq(transactions,
              LAMBDA r : /\ Owned(r, user)
                         /\ r.transaction_type = type
                         /\ InPeriod(r, month, year))

\* rows of one user in a period (lines 53-57)
PeriodRows(user, month, year) ==
    SelectSeq(transactions, LAMBDA r : Owned(r, user) /\ InPeriod(r, month, year))

\* variant: no filter on the period
CategoryRows_anyperiod(user, category, month, year) ==
    SelectSeq(transactions,
              LAMBDA r : /\ Owned(r, user)
                         /\ r.transaction_type = "expense"
                         /\ r.category = category)

\* expense rows of one user and one category in a period (lines 103-109,
\* budgets.py lines 52-58, and one group of lines 67-76)
CategoryRows(user, category, month, year) ==
    SelectSeq(TypeRows(user, "expense", month, year),
              LAMBDA r : r.category = category)

\* lines 44-51: expense_sum = abs(sum or 0)
ExpenseTotal(user, month, year) ==
    Abs(SumAmount(TypeRows(user, "expense", month, year)))

\* lines 36-64
MonthlyAnalysis(user, month, year) ==
    LET income_sum == SumAmount(TypeRows(user, "income", month, year))
        expense_sum == ExpenseTotal(user, month, year)
    IN  [total_income |-> income_sum,
         total_expenses |-> expense_sum,
         balance |-> income_sum - expense_sum,
         transactions_count |-> Len(PeriodRows(user, month, year))]

\* lines 66-87; GROUP BY promises no order, so the list is kept as a set
CategoryBreakdown(user, month, year) ==
    LET expense_sum == ExpenseTotal(user, month, year)
        rows == TypeRows(user, "expense", month, year)
        groups == {rows[i].category : i \in DOMAIN rows}
    IN  {[category |-> c,
          amount |-> Abs(SumAmount(CategoryRows(user, c, month, year))),
          percentage |->
              IF expense_sum > 0
              THEN Times(TrueDiv(Abs(SumAmount(CategoryRows(user, c, month, year))),
                                 expense_sum), 100)
              ELSE Zero,
          transaction_count |-> Len(CategoryRows(user, c, month, year))] : c \in groups}

\* lines 94-120 (and budgets.py lines 42-70): every budget of the period
\* with its recomputed spend
BudgetsWithSpent(user, month, year) ==
    LET mine == SelectSeq(budgets,
                          LAMBDA b : b.user_id = user /\ b.month = month /\ b.year = year)
    IN  [i \in DOMAIN mine |->
            LET spent_amount ==
                    Abs(SumAmount(CategoryRows(user, mine[i].category, month, year)))
            IN  [budget |-> mine[i],
                 spent_amount |-> spent_amount,
                 percentage |-> Percentage(spent_amount, mine[i].amount),
                 status |-> calculate_budget_status(mine[i].amount, spent_amount)]]

\* lines 30-34: month = month or now.month, year = year or now.year
ResolveMonth(month_q) == IF month_q = <<>> THEN now.month ELSE month_q[1]

ResolveYear(year_q) == IF year_q = <<>> THEN now.year ELSE year_q[1]

\* the clock half a day after t: noon of the same day, or midnight of the
\* following day
Tick(t) ==
    IF t.secs < 43200 THEN [t EXCEPT !.secs = 43200]
    ELSE IF t.day < monthrange(t.year, t.month)
    THEN [t EXCEPT !.day = @ + 1, !.secs = 0]
    ELSE [year |-> NextMonth(t.year, t.month).year,
          month |-> NextMonth(t.year, t.month).month,
          day |-> 1, secs |-> 0]

\* the j-th datetime.now() of a handler's loop: the first k reads return now,
\* the later ones find the clock half a day further
Read(j, k) == IF j <= k THEN now ELSE Tick(now)

\* fixed_payments.py lines 64-66: every fixed payment of the user
UserPayments(user) == SelectSeq(fixed_payments, LAMBDA p : p.user_id = user)

\* analytics.py lines 123-126: the active fixed payments of the user
ActivePayments(user) ==
    SelectSeq(fixed_payments, LAMBDA p : p.user_id = user /\ p.is_active)

\* fixed_payments.py lines 71-73, analytics.py lines 130-134: next_due from the
\* clock read inside calculate_next_due_date, days_until_due from the read of
\* the subtraction
PaymentWithStatus(p, t1, t2) ==
    LET next_due == calculate_next_due_date(p.due_day, t1)
        days_until_due == DateDiffDays(next_due, t2)
    IN  [payment |-> p,
         next_due |-> next_due,
         days_until_due |-> days_until_due,
         status |-> get_payment_status(p.is_active, days_until_due)]

\* the loop over a list of payments with its clock reads
PaymentsWithStatus(payments, k) ==
    [i \in DOMAIN payments |->
        PaymentWithStatus(payments[i], Read(2 * i - 1, k), Read(2 * i, k))]

\* variant: days_until_due < 7
WithinWeek_strict(days_until_due) == days_until_due < 7

\* analytics.py line 133: days_until_due <= 7
WithinWeek(days_until_due) == days_until_due <= 7

\* analytics.py lines 122-140
UpcomingPayments(user, k) ==
    SelectSeq(PaymentsWithStatus(ActivePayments(user), k),
              LAMBDA e : WithinWeek(e.days_until_due))

\* FixedPaymentWithStatus(**payment.__dict__, ...) runs validate_due_day:
\* some entry of the list cannot be built
ValidationError(entries) ==
    \E i \in DOMAIN entries : ~validate_due_day(entries[i].payment.due_day)

\* analytics.py lines 156-157: end_date - timedelta(days=months * 30), as the
\* ordinal of its day and its seconds since midnight
StartDate(months) == [ordinal |-> toordinal(now) - months * 30, secs |-> now.secs]

\* Transaction.date >= start_date
SinceStart(row, months) ==
    \/ toordinal(row.date) > StartDate(months).ordinal
    \/ /\ toordinal(row.date) = StartDate(months).ordinal
       /\ row.date.secs >= StartDate(months).secs

\* analytics.py line 176: f"{int(year)}-{int(month):02d}"
TrendKey(year, month) ==
    ToString(year) \o "-" \o (IF month < 10 THEN "0" ELSE "") \o ToString(month)

\* analytics.py lines 160-186 over the selected rows: one entry per
\* (year, month) group, income the sum of the income rows, expenses the
\* absolute sum of the others
TrendData(rows) ==
    LET keys == {TrendKey(rows[i].date.year, rows[i].date.month) : i \in DOMAIN rows}
        group(key, income) ==
            SelectSeq(rows, LAMBDA r :
                /\ TrendKey(r.date.year, r.date.month) = key
                /\ (r.transaction_type = "income") = income)
    IN  [key \in keys |->
            [income |-> SumAmount(group(key, TRUE)),
             expenses |-> Abs(SumAmount(group(key, FALSE)))]]

\* analytics.py lines 160-171: the rows the monthly trend selects
TrendRows(user, months) ==
    SelectSeq(transactions, LAMBDA r : Owned(r, user) /\ SinceStart(r, months))

\* analytics.py lines 198-207: the rows the category trend selects
CategoryTrendRows(user, category, months) ==
    SelectSeq(transactions, LAMBDA r :
        /\ Owned(r, user)
        /\ r.category = category
        /\ r.transaction_type = "expense"
        /\ SinceStart(r, months))

\* analytics.py lines 209-215: one entry per (year, month) group
CategoryTrendData(rows) ==
    LET keys == {TrendKey(rows[i].date.year, rows[i].date.month) : i \in DOMAIN rows}
    IN  [key \in keys |->
            Abs(SumAmount(SelectSeq(rows, LAMBDA r :
                    TrendKey(r.date.year, r.date.month) = key)))]

----------------------------------------------------------------------------
(* Values shared by the specifications *)

NoResp == [op |-> "none"]

NoPayment == [due_day |-> 1, is_active |-> TRUE]

NoEval == [fn |-> "none"]

NoClock == [year |-> 2024, month |-> 5, day |-> 20, secs |-> 43200]

NoIds ==
    [transactions |-> 1, budgets |-> 1, fixed_payments |-> 1, notifications |-> 1,
     notification_settings |-> 1]

NoPc == <<>>

----------------------------------------------------------------------------
(* SpecDue: calculate_next_due_date on every due_day at every instant *)

DueDayInputs == 0..32

InitDue ==
    /\ now \in Instants
    /\ payment \in [due_day : DueDayInputs, is_active : {TRUE}]
    /\ evalIn = NoEval
    /\ transactions = <<>>
    /\ budgets = <<>>
    /\ nextId = NoIds
    /\ pc = NoPc
    /\ resp = NoResp
    /\ fixed_payments = <<>>
    /\ notifications = <<>>
    /\ notification_settings = <<>>

CallNextDueDate ==
    /\ resp.op = "none"
    /\ resp' = [op |-> "calculate_next_due_date",
                next_due |-> calculate_next_due_date(payment.due_day, now)]
    /\ UNCHANGED <<fixed_payments, notifications, notification_settings,
                   now, payment, evalIn, transactions, budgets, nextId, pc>>

\* one pass of the loop of get_fixed_payments (lines 71-73; analytics.py
\* lines 130-134): the clock is read inside calculate_next_due_date and again
\* for the subtraction, at the same instant or half a day later
CallPaymentWithStatus ==
    /\ resp.op = "none"
    /\ \E t2 \in {now, Tick(now)} :
           resp' = [op |-> "payment_with_status", t2 |-> t2,
                    entry |-> PaymentWithStatus(payment, now, t2)]
    /\ UNCHANGED <<fixed_payments, notifications, notification_settings,
                   now, payment, evalIn, transactions, budgets, nextId, pc>>

NextDue == CallNextDueDate \/ CallPaymentWithStatus

SpecDue == InitDue /\ [][NextDue]_vars

----------------------------------------------------------------------------
(* SpecEval: the two status classifiers on every argument *)

EvalInputs ==
    [fn : {"get_payment_status"}, is_active : BOOLEAN,
     days_until_due : -MaxDays..MaxDays]
    \cup
    [fn : {"calculate_budget_status"}, amount : -1..MaxLimit,
     spent_amount : 0..MaxSpent]

InitEval ==
    /\ evalIn \in EvalInputs
    /\ now = NoClock
    /\ payment = NoPayment
    /\ transactions = <<>>
    /\ budgets = <<>>
    /\ nextId = NoIds
    /\ pc = NoPc
    /\ resp = NoResp
    /\ fixed_payments = <<>>
    /\ notifications = <<>>
    /\ notification_settings = <<>>

CallPaymentStatus ==
    /\ resp.op = "none"
    /\ evalIn.fn = "get_payment_status"
    /\ resp' = [op |-> "get_payment_status",
                status |-> get_payment_status(evalIn.is_active, evalIn.days_until_due)]
    /\ UNCHANGED <<fixed_payments, notifications, notification_settings,
                   now, payment, evalIn, transactions, budgets, nextId, pc>>

CallBudgetStatus ==
    /\ resp.op = "none"
    /\ evalIn.fn = "calculate_budget_status"
    /\ resp' = [op |-> "calculate_budget_status",
                percentage |-> Percentage(evalIn.spent_amount, evalIn.amount),
                status |-> calculate_budget_status(evalIn.amount, evalIn.spent_amount)]
    /\ UNCHANGED <<fixed_payments, notifications, notification_settings,
                   now, payment, evalIn, transactions, budgets, nextId, pc>>

NextEval == CallPaymentStatus \/ CallBudgetStatus

SpecEval == InitEval /\ [][NextEval]_vars

----------------------------------------------------------------------------
(* Spec: the transaction handlers (routers/transactions.py) and the         *)
(* dashboard (routers/analytics.py), one request at a time.  The dashboard  *)
(* response keeps monthly_analysis, category_breakdown and budget_status.   *)

Categories == {"food", "rent"}

TxAmounts == {-20, 20}

TxDates == {datetime(2024, 5, 10), datetime(2025, 6, 10)}

TransactionCreate ==
    [amount : TxAmounts, category : Categories,
     transaction_type : {"income", "expense"}, date : TxDates]

\* partial updates: nothing, one field, two fields
TransactionUpdate ==
    { [amount |-> <<>>, category |-> <<>>, date |-> <<>>],
      [amount |-> <<20>>, category |-> <<>>, date |-> <<>>],
      [amount |-> <<>>, category |-> <<"rent">>, date |-> <<>>],
      [amount |-> <<-20>>, category |-> <<>>, date |-> <<datetime(2025, 6, 10)>>] }

QueryMonths == Opt({5, 6})

QueryYears == Opt({2024, 2025})

\* the stored rows of the worked example: food -50 and -30, salary 1000,
\* all of user 1 in May 2024, and user 1's food budget of 100
ScenarioTransactions ==
    << [id |-> 1, user_id |-> 1, amount |-> -50, category |-> "food",
        transaction_type |-> "expense", date |-> datetime(2024, 5, 2)],
       [id |-> 2, user_id |-> 1, amount |-> -30, category |-> "food",
        transaction_type |-> "expense", date |-> datetime(2024, 5, 10)],
       [id |-> 3, user_id |-> 1, amount |-> 1000, category |-> "salary",
        transaction_type |-> "income", date |-> datetime(2024, 5, 1)] >>

ScenarioBudgets ==
    << [id |-> 1, user_id |-> 1, category |-> "food", amount |-> 100,
        month |-> 5, year |-> 2024] >>

Init ==
    /\ transactions \in {<<>>, ScenarioTransactions}
    /\ budgets = ScenarioBudgets
    /\ nextId = [NoIds EXCEPT !.transactions = Len(transactions) + 1,
                            !.budgets = Len(budgets) + 1]
    /\ now = NoClock
    /\ payment = NoPayment
    /\ evalIn = NoEval
    /\ pc = NoPc
    /\ resp = NoResp
    /\ fixed_payments = <<>>
    /\ notifications = <<>>
    /\ notification_settings = <<>>

\* no request is being served
Idle == resp.op = "none"

\* the response goes out to the caller; the server waits for the next request
Respond ==
    /\ ~Idle
    /\ resp' = NoResp
    /\ UNCHANGED <<fixed_payments, notifications, notification_settings,
                   now, payment, evalIn, transactions, budgets, nextId, pc>>

\* variant: the filter on user_id left out
Find_anyuser(table, id, user) ==
    IF \E i \in DOMAIN table : table[i].id = id
    THEN CHOOSE i \in DOMAIN table : table[i].id = id
    ELSE 0

\* db.query(T).filter(T.id == id, T.user_id == current_user.id).first():
\* the index of the row in the table, 0 when there is none
Find(table, id, user) ==
    IF \E i \in DOMAIN table : table[i].id = id /\ table[i].user_id = user
    THEN CHOOSE i \in DOMAIN table : table[i].id = id /\ table[i].user_id = user
    ELSE 0

\* db.delete(row)
Remove(table, i) == [j \in 1..(Len(table) - 1) |-> IF j < i THEN table[j] ELSE table[j + 1]]

\* setattr(row, field, value) for every field the request carries
\* (dict(exclude_unset=True))
MergeTransaction(row, upd) ==
    [row EXCEPT !.amount = IF upd.amount = <<>> THEN @ ELSE upd.amount[1],
                !.category = IF upd.category = <<>> THEN @ ELSE upd.category[1],
                !.date = IF upd.date = <<>> THEN @ ELSE upd.date[1]]

create_transaction(user, body) ==
    /\ Idle
    /\ nextId.transactions <= MaxTx        \* bound on the rows ever stored
    /\ transactions' = Append(transactions,
           [id |-> nextId.transactions, user_id |-> user, amount |-> body.amount,
            category |-> body.category, transaction_type |-> body.transaction_type,
            date |-> body.date])
    /\ nextId' = [nextId EXCEPT !.transactions = @ + 1]
    /\ resp' = [op |-> "create_transaction", status |-> 200]
    /\ UNCHANGED <<fixed_payments, notifications, notification_settings,
                   now, payment, evalIn, budgets, pc>>

update_transaction(user, id, upd) ==
    LET i == Find(transactions, id, user)
    IN  /\ Idle
        /\ IF i = 0
           THEN /\ resp' = [op |-> "update_transaction", status |-> 404]
                /\ UNCHANGED transactions
           ELSE /\ transactions' =
                       [transactions EXCEPT ![i] = MergeTransaction(@, upd)]
                /\ resp' = [op |-> "update_transaction", status |-> 200]
        /\ UNCHANGED <<fixed_payments, notifications, notification_settings,
                   now, payment, evalIn, budgets, nextId, pc>>

delete_transaction(user, id) ==
    LET i == Find(transactions, id, user)
    IN  /\ Idle
        /\ IF i = 0
           THEN /\ resp' = [op |-> "delete_transaction", status |-> 404]
                /\ UNCHANGED transactions
           ELSE /\ transactions' = Remove(transactions, i)
                /\ resp' = [op |-> "delete_transaction", status |-> 200]
        /\ UNCHANGED <<fixed_payments, notifications, notification_settings,
                   now, payment, evalIn, budgets, nextId, pc>>

\* analytics.py lines 23-148; k places the loop's clock reads
DashboardData(user, month_q, year_q, k) ==
    LET month == ResolveMonth(month_q)
        year == ResolveYear(year_q)
    IN  IF ValidationError(UpcomingPayments(user, k))
        THEN [op |-> "get_dashboard_data", status |-> 500, user |-> user]
        ELSE [op |-> "get_dashboard_data", status |-> 200,
              user |-> user, month |-> month, year |-> year, clock |-> k,
              monthly_analysis |-> MonthlyAnalysis(user, month, year),
              category_breakdown |-> CategoryBreakdown(user, month, year),
              budget_status |-> BudgetsWithSpent(user, month, year),
              upcoming_payments |-> UpcomingPayments(user, k)]

get_dashboard_data(user, month_q, year_q, k) ==
        /\ Idle
        /\ resp' = DashboardData(user, month_q, year_q, k)
        /\ UNCHANGED <<fixed_payments, notifications, notification_settings,
                   now, payment, evalIn, transactions, budgets, nextId, pc>>

CreateTransaction ==
    \E user \in Users, body \in TransactionCreate : create_transaction(user, body)

UpdateTransaction ==
    \E user \in Users, id \in 1..nextId.transactions, upd \in TransactionUpdate :
        update_transaction(user, id, upd)

DeleteTransaction ==
    \E user \in Users, id \in 1..nextId.transactions : delete_transaction(user, id)

Dashboard ==
    \E user \in Users, month_q \in QueryMonths, year_q \in QueryYears :
        \E k \in 0..(2 * Len(ActivePayments(user))) :
            get_dashboard_data(user, month_q, year_q, k)

Next ==
    CreateTransaction \/ UpdateTransaction \/ DeleteTransaction \/ Dashboard \/ Respond

Spec == Init /\ [][Next]_vars

----------------------------------------------------------------------------
(* SpecBudget: the budget handlers (routers/budgets.py), one request at a   *)
(* time, over the stored transactions of the worked example.                *)

BudgetAmounts == {0, 100}

BudgetMonths == {5, 6, 13}

BudgetCreate ==
    [category : Categories, amount : BudgetAmounts, month : BudgetMonths, year : {2024}]

BudgetUpdate == [amount : Opt(BudgetAmounts)]

\* schemas.py lines 72-76: validate_month
validate_month(v) == 1 <= v /\ v <= 12

\* variant: no existence query
ExistingBudget_none(user, body) == 0

\* lines 80-85: the stored budget of this user, category, month and year
\* (its index in the table), 0 when there is none
ExistingBudget(user, body) ==
    IF \E i \in DOMAIN budgets :
           /\ budgets[i].user_id = user
           /\ budgets[i].category = body.category
           /\ budgets[i].month = body.month
           /\ budgets[i].year = body.year
    THEN CHOOSE i \in DOMAIN budgets :
           /\ budgets[i].user_id = user
           /\ budgets[i].category = body.category
           /\ budgets[i].month = body.month
           /\ budgets[i].year = body.year
    ELSE 0

\* lines 93-98: Budget(**budget.dict(), user_id=current_user.id), add, commit
InsertBudget(user, body) ==
    /\ budgets' = Append(budgets,
           [id |-> nextId.budgets, user_id |-> user, category |-> body.category,
            amount |-> body.amount, month |-> body.month, year |-> body.year])
    /\ nextId' = [nextId EXCEPT !.budgets = @ + 1]

create_budget(user, body) ==
    /\ Idle
    /\ IF ~validate_month(body.month)
       THEN /\ resp' = [op |-> "create_budget", status |-> 422]
            /\ UNCHANGED <<budgets, nextId>>
       ELSE IF ExistingBudget(user, body) # 0
       THEN /\ resp' = [op |-> "create_budget", status |-> 400]
            /\ UNCHANGED <<budgets, nextId>>
       ELSE /\ nextId.budgets <= MaxBudgets      \* bound on the rows ever stored
            /\ InsertBudget(user, body)
            /\ resp' = [op |-> "create_budget", status |-> 200]
    /\ UNCHANGED <<fixed_payments, notifications, notification_settings,
                   now, payment, evalIn, transactions, pc>>

update_budget(user, id, upd) ==
    LET i == Find(budgets, id, user)
    IN  /\ Idle
        /\ IF i = 0
           THEN /\ resp' = [op |-> "update_budget", status |-> 404]
                /\ UNCHANGED budgets
           ELSE /\ budgets' = [budgets EXCEPT ![i].amount =
                                   IF upd.amount = <<>> THEN @ ELSE upd.amount[1]]
                /\ resp' = [op |-> "update_budget", status |-> 200]
        /\ UNCHANGED <<fixed_payments, notifications, notification_settings,
                   now, payment, evalIn, transactions, nextId, pc>>

delete_budget(user, id) ==
    LET i == Find(budgets, id, user)
    IN  /\ Idle
        /\ IF i = 0
           THEN /\ resp' = [op |-> "delete_budget", status |-> 404]
                /\ UNCHANGED budgets
           ELSE /\ budgets' = Remove(budgets, i)
                /\ resp' = [op |-> "delete_budget", status |-> 200]
        /\ UNCHANGED <<fixed_payments, notifications, notification_settings,
                   now, payment, evalIn, transactions, nextId, pc>>

\* budgets.py lines 29-72
BudgetsResponse(user, month_q, year_q) ==
    LET month == ResolveMonth(month_q)
        year == ResolveYear(year_q)
    IN  [op |-> "get_budgets", status |-> 200,
         user |-> user, month |-> month, year |-> year,
         budgets |-> BudgetsWithSpent(user, month, year)]

get_budgets(user, month_q, year_q) ==
        /\ Idle
        /\ resp' = BudgetsResponse(user, month_q, year_q)
        /\ UNCHANGED <<fixed_payments, notifications, notification_settings,
                   now, payment, evalIn, transactions, budgets, nextId, pc>>

InitBudget ==
    /\ budgets = <<>>
    /\ transactions = ScenarioTransactions
    /\ nextId = [NoIds EXCEPT !.transactions = Len(transactions) + 1]
    /\ now = NoClock
    /\ payment = NoPayment
    /\ evalIn = NoEval
    /\ pc = NoPc
    /\ resp = NoResp
    /\ fixed_payments = <<>>
    /\ notifications = <<>>
    /\ notification_settings = <<>>

CreateBudget ==
    \E user \in Users, body \in BudgetCreate : create_budget(user, body)

UpdateBudget ==
    \E user \in Users, id \in 1..nextId.budgets, upd \in BudgetUpdate :
        update_budget(user, id, upd)

DeleteBudget ==
    \E user \in Users, id \in 1..nextId.budgets : delete_budget(user, id)

GetBudgets ==
    \E user \in Users, month_q \in QueryMonths, year_q \in Opt({2024}) :
        get_budgets(user, month_q, year_q)

NextBudget == CreateBudget \/ UpdateBudget \/ DeleteBudget \/ GetBudgets \/ Respond

SpecBudget == InitBudget /\ [][NextBudget]_vars

----------------------------------------------------------------------------
(* SpecRace: create_budget requests in flight together (several workers on  *)
(* one database).  Each request runs its existence query (lines 80-85) and  *)
(* later its insert and commit (lines 93-98); another request's steps may   *)
(* fall in between.  pc[r] is where request r stands, with its arguments.   *)

Requests == 1..NumRequests

RaceBodies == [category : Categories, amount : BudgetAmounts, month : {5, 6}, year : {2024}]

InitRace ==
    /\ pc \in [Requests -> [at : {"query"}, user : Users, body : RaceBodies]]
    /\ budgets = <<>>
    /\ transactions = <<>>
    /\ nextId = NoIds
    /\ now = NoClock
    /\ payment = NoPayment
    /\ evalIn = NoEval
    /\ resp = NoResp
    /\ fixed_payments = <<>>
    /\ notifications = <<>>
    /\ notification_settings = <<>>

\* lines 80-91: the query, and the 400 when it finds a budget
RaceQuery(r) ==
    /\ pc[r].at = "query"
    /\ pc' = [pc EXCEPT ![r].at =
                 IF ExistingBudget(pc[r].user, pc[r].body) # 0 THEN "rejected" ELSE "insert"]
    /\ UNCHANGED <<fixed_payments, notifications, notification_settings,
                   now, payment, evalIn, transactions, budgets, nextId, resp>>

\* lines 93-101: add, commit, return
RaceCommit(r) ==
    /\ pc[r].at = "insert"
    /\ InsertBudget(pc[r].user, pc[r].body)
    /\ pc' = [pc EXCEPT ![r].at = "stored"]
    /\ UNCHANGED <<fixed_payments, notifications, notification_settings,
                   now, payment, evalIn, transactions, resp>>

NextRace == \E r \in Requests : RaceQuery(r) \/ RaceCommit(r)

SpecRace == InitRace /\ [][NextRace]_vars

----------------------------------------------------------------------------
(* SpecSettings: get_notification_settings and update_notification_settings *)
(* (routers/notifications.py) in flight together.  Each request runs its    *)
(* lookup (.first()) and later its conditional insert or its assignments    *)
(* and the commit; another request's steps may fall in between.  A row of   *)
(* notification_settings is [id, user_id] with the six preference flags.    *)
(* pc[r].found is the row the lookup loaded, NoSettings when there was none. *)

Flags ==
    {"email_notifications", "sms_notifications", "budget_alerts",
     "payment_reminders", "weekly_reports", "monthly_reports"}

\* schemas.py NotificationSettingsBase; models.py has the same column defaults
SettingsDefaults ==
    [email_notifications |-> TRUE, sms_notifications |-> TRUE, budget_alerts |-> TRUE,
     payment_reminders |-> TRUE, weekly_reports |-> FALSE, monthly_reports |-> TRUE]

NoSettings == [id |-> 0]

NoFlags == [f \in Flags |-> <<>>]

\* NotificationSettingsUpdate bodies: each flag absent (<<>>) or provided
NotificationSettingsUpdate ==
    { NoFlags,
      [NoFlags EXCEPT !.weekly_reports = <<TRUE>>],
      [NoFlags EXCEPT !.email_notifications = <<FALSE>>],
      [NoFlags EXCEPT !.email_notifications = <<TRUE>>, !.sms_notifications = <<FALSE>>] }

\* settings_update.dict(): every field of the schema, an absent one at its default
SettingsDict(body) ==
    [f \in Flags |-> IF body[f] = <<>> THEN SettingsDefaults[f] ELSE body[f][1]]

SettingsRow(id, user, values) ==
    [id |-> id, user_id |-> user,
     email_notifications |-> values.email_notifications,
     sms_notifications |-> values.sms_notifications,
     budget_alerts |-> values.budget_alerts,
     payment_reminders |-> values.payment_reminders,
     weekly_reports |-> values.weekly_reports,
     monthly_reports |-> values.monthly_reports]

\* filter(NotificationSettings.user_id == current_user.id)
UserSettings(user) ==
    {notification_settings[i] : i \in {j \in DOMAIN notification_settings :
                                          notification_settings[j].user_id = user}}

\* .first() has no ORDER BY: any of the user's rows, or None
FirstSettings(user) ==
    IF UserSettings(user) = {} THEN {NoSettings} ELSE UserSettings(user)

InsertSettings(user, values) ==
    /\ notification_settings' =
           Append(notification_settings,
                  SettingsRow(nextId.notification_settings, user, values))
    /\ nextId' = [nextId EXCEPT !.notification_settings = @ + 1]

\* setattr for every item of values on the loaded row, then the UPDATE of the
\* commit: the columns whose assigned value differs from the loaded one
AssignSettings(loaded, values) ==
    /\ notification_settings' =
           [i \in DOMAIN notification_settings |->
               IF notification_settings[i].id = loaded.id
               THEN [f \in DOMAIN loaded |->
                        IF f \in DOMAIN values /\ values[f] # loaded[f]
                        THEN values[f]
                        ELSE notification_settings[i][f]]
               ELSE notification_settings[i]]
    /\ UNCHANGED nextId

SettingsRequests ==
    [at : {"query"}, op : {"get"}, user : Users, body : {NoFlags},
     found : {NoSettings}]
    \cup
    [at : {"query"}, op : {"update"}, user : Users, body : NotificationSettingsUpdate,
     found : {NoSettings}]

InitSettings ==
    /\ pc \in [Requests -> SettingsRequests]
    /\ budgets = <<>>
    /\ transactions = <<>>
    /\ nextId = NoIds
    /\ now = NoClock
    /\ payment = NoPayment
    /\ evalIn = NoEval
    /\ resp = NoResp
    /\ fixed_payments = <<>>
    /\ notifications = <<>>
    /\ notification_settings = <<>>

\* lines 110-112 and 129-131: the lookup
SettingsQuery(r) ==
    /\ pc[r].at = "query"
    /\ \E row \in FirstSettings(pc[r].user) :
           pc' = [pc EXCEPT ![r].at = "commit", ![r].found = row]
    /\ UNCHANGED <<fixed_payments, notifications, notification_settings,
                   now, payment, evalIn, transactions, budgets, nextId, resp>>

\* lines 114-121: insert the defaults when the lookup found nothing
get_notification_settings(r) ==
    /\ pc[r].at = "commit"
    /\ pc[r].op = "get"
    /\ IF pc[r].found = NoSettings
       THEN InsertSettings(pc[r].user, SettingsDefaults)
       ELSE UNCHANGED <<notification_settings, nextId>>
    /\ pc' = [pc EXCEPT ![r].at = "done"]
    /\ UNCHANGED <<fixed_payments, notifications,
                   now, payment, evalIn, transactions, budgets, resp>>

\* lines 133-145: insert the body when the lookup found nothing, else assign
\* every item of settings_update.dict() and commit
update_notification_settings(r) ==
    /\ pc[r].at = "commit"
    /\ pc[r].op = "update"
    /\ IF pc[r].found = NoSettings
       THEN InsertSettings(pc[r].user, SettingsDict(pc[r].body))
       ELSE AssignSettings(pc[r].found, SettingsDict(pc[r].body))
    /\ pc' = [pc EXCEPT ![r].at = "done"]
    /\ UNCHANGED <<fixed_payments, notifications,
                   now, payment, evalIn, transactions, budgets, resp>>

NextSettings ==
    \E r \in Requests :
        \/ SettingsQuery(r)
        \/ get_notification_settings(r)
        \/ update_notification_settings(r)

SpecSettings == InitSettings /\ [][NextSettings]_vars

----------------------------------------------------------------------------
(* SpecCrud: the writing handlers of transactions, budgets, fixed payments  *)
(* and notifications, one request at a time.  A row of fixed_payments is    *)
(* [id, user_id, amount, due_day, is_active, auto_register]; a row of       *)
(* notifications is [id, user_id, notification_type, is_read].              *)

DueDays == {0, 15}

FixedPaymentCreate ==
    [amount : {50}, due_day : DueDays, is_active : {TRUE}, auto_register : {FALSE}]

\* partial updates: nothing, one field, two fields
FixedPaymentUpdate ==
    { [amount |-> <<>>, due_day |-> <<>>, is_active |-> <<>>, auto_register |-> <<>>],
      [amount |-> <<>>, due_day |-> <<10>>, is_active |-> <<>>, auto_register |-> <<>>],
      [amount |-> <<>>, due_day |-> <<0>>, is_active |-> <<>>, auto_register |-> <<>>],
      [amount |-> <<70>>, due_day |-> <<>>, is_active |-> <<FALSE>>,
       auto_register |-> <<>>] }

NotificationCreate ==
    [user_id : Users, notification_type : {"payment_reminder"}]

\* variant: dict() without exclude_unset, an absent field is assigned a null
MergeFixedPayment_all(row, upd) ==
    [row EXCEPT !.amount = IF upd.amount = <<>> THEN 0 ELSE upd.amount[1],
                !.due_day = IF upd.due_day = <<>> THEN 0 ELSE upd.due_day[1],
                !.is_active = IF upd.is_active = <<>> THEN FALSE ELSE upd.is_active[1],
                !.auto_register =
                    IF upd.auto_register = <<>> THEN FALSE ELSE upd.auto_register[1]]

\* lines 114-115: setattr(payment, field, value) for every field the request
\* carries (dict(exclude_unset=True))
MergeFixedPayment(row, upd) ==
    [row EXCEPT !.amount = IF upd.amount = <<>> THEN @ ELSE upd.amount[1],
                !.due_day = IF upd.due_day = <<>> THEN @ ELSE upd.due_day[1],
                !.is_active = IF upd.is_active = <<>> THEN @ ELSE upd.is_active[1],
                !.auto_register =
                    IF upd.auto_register = <<>> THEN @ ELSE upd.auto_register[1]]

\* primary keys handed out so far, over the four tables
IdsUsed ==
    (nextId.transactions - 1) + (nextId.budgets - 1)
        + (nextId.fixed_payments - 1) + (nextId.notifications - 1)

create_fixed_payment(user, body) ==
    /\ Idle
    /\ IF ~validate_due_day(body.due_day)
       THEN /\ resp' = [op |-> "create_fixed_payment", status |-> 422, user |-> user]
            /\ UNCHANGED <<fixed_payments, nextId>>
       ELSE /\ IdsUsed < MaxRows                 \* bound on the rows ever stored
            /\ fixed_payments' = Append(fixed_payments,
                   [id |-> nextId.fixed_payments, user_id |-> user,
                    amount |-> body.amount, due_day |-> body.due_day,
                    is_active |-> body.is_active,
                    auto_register |-> body.auto_register])
            /\ nextId' = [nextId EXCEPT !.fixed_payments = @ + 1]
            /\ resp' = [op |-> "create_fixed_payment", status |-> 200, user |-> user]
    /\ UNCHANGED <<notifications, notification_settings,
                   now, payment, evalIn, transactions, budgets, pc>>

update_fixed_payment(user, id, upd) ==
    LET i == Find(fixed_payments, id, user)
    IN  /\ Idle
        /\ IF i = 0
           THEN /\ resp' = [op |-> "update_fixed_payment", status |-> 404, user |-> user]
                /\ UNCHANGED fixed_payments
           ELSE /\ fixed_payments' =
                       [fixed_payments EXCEPT ![i] = MergeFixedPayment(@, upd)]
                /\ resp' = [op |-> "update_fixed_payment", status |-> 200, user |-> user,
                            payment |-> MergeFixedPayment(fixed_payments[i], upd)]
        /\ UNCHANGED <<notifications, notification_settings,
                       now, payment, evalIn, transactions, budgets, nextId, pc>>

delete_fixed_payment(user, id) ==
    LET i == Find(fixed_payments, id, user)
    IN  /\ Idle
        /\ IF i = 0
           THEN /\ resp' = [op |-> "delete_fixed_payment", status |-> 404, user |-> user]
                /\ UNCHANGED fixed_payments
           ELSE /\ fixed_payments' = Remove(fixed_payments, i)
                /\ resp' = [op |-> "delete_fixed_payment", status |-> 200, user |-> user]
        /\ UNCHANGED <<notifications, notification_settings,
                       now, payment, evalIn, transactions, budgets, nextId, pc>>

\* notifications.py lines 33-43: Notification(**notification.dict()), the
\* user_id being the one of the request body
create_notification(user, body) ==
    /\ Idle
    /\ IdsUsed < MaxRows                         \* bound on the rows ever stored
    /\ notifications' = Append(notifications,
           [id |-> nextId.notifications, user_id |-> body.user_id,
            notification_type |-> body.notification_type, is_read |-> FALSE])
    /\ nextId' = [nextId EXCEPT !.notifications = @ + 1]
    /\ resp' = [op |-> "create_notification", status |-> 200, user |-> user]
    /\ UNCHANGED <<fixed_payments, notification_settings,
                   now, payment, evalIn, transactions, budgets, pc>>

\* the request bodies SpecCrud sends to the transaction and budget handlers
CrudTransactionCreate ==
    {body \in TransactionCreate :
        body.amount = -20 /\ body.transaction_type = "expense" /\ body.category = "food"}

CrudBudgetCreate ==
    {body \in BudgetCreate :
        body.amount = 100 /\ body.category = "food" /\ body.month \in {5, 13}}

InitCrud ==
    /\ transactions = <<>>
    /\ budgets = <<>>
    /\ fixed_payments = <<>>
    /\ notifications = <<>>
    /\ notification_settings = <<>>
    /\ nextId = NoIds
    /\ now = NoClock
    /\ payment = NoPayment
    /\ evalIn = NoEval
    /\ pc = NoPc
    /\ resp = NoResp

CrudCreateTransaction ==
    /\ IdsUsed < MaxRows
    /\ \E user \in Users, body \in CrudTransactionCreate : create_transaction(user, body)

CrudCreateBudget ==
    /\ IdsUsed < MaxRows
    /\ \E user \in Users, body \in CrudBudgetCreate : create_budget(user, body)

CreateFixedPayment ==
    \E user \in Users, body \in FixedPaymentCreate : create_fixed_payment(user, body)

UpdateFixedPayment ==
    \E user \in Users, id \in 1..nextId.fixed_payments, upd \in FixedPaymentUpdate :
        update_fixed_payment(user, id, upd)

DeleteFixedPayment ==
    \E user \in Users, id \in 1..nextId.fixed_payments : delete_fixed_payment(user, id)

CreateNotification ==
    \E user \in Users, body \in NotificationCreate : create_notification(user, body)

NextCrud ==
    \/ CrudCreateTransaction \/ UpdateTransaction \/ DeleteTransaction
    \/ CrudCreateBudget \/ UpdateBudget \/ DeleteBudget
    \/ CreateFixedPayment \/ UpdateFixedPayment \/ DeleteFixedPayment
    \/ CreateNotification
    \/ Respond

SpecCrud == InitCrud /\ [][NextCrud]_vars

----------------------------------------------------------------------------
(* SpecRead: the reading handlers (dashboard, monthly and category trend,   *)
(* get_budgets, get_fixed_payments) over stored tables that earlier writes  *)
(* have left, one request at a time.  The clock may advance by half a day   *)
(* between two reads of one handler.                                        *)

ReadClocks ==
    { NoClock,
      [year |-> 2024, month |-> 5, day |-> 31, secs |-> 43200],
      [year |-> 2024, month |-> 12, day |-> 31, secs |-> 0] }

\* transactions before, inside and after the trend windows that end in
\* May 2024
TrendTransactions ==
    << [id |-> 1, user_id |-> 1, amount |-> -40, category |-> "food",
        transaction_type |-> "expense", date |-> datetime(2024, 3, 5)],
       [id |-> 2, user_id |-> 1, amount |-> 1000, category |-> "salary",
        transaction_type |-> "income", date |-> datetime(2024, 4, 25)],
       [id |-> 3, user_id |-> 1, amount |-> -30, category |-> "food",
        transaction_type |-> "expense", date |-> datetime(2024, 5, 10)],
       [id |-> 4, user_id |-> 1, amount |-> -20, category |-> "rent",
        transaction_type |-> "expense", date |-> datetime(2024, 6, 15)],
       [id |-> 5, user_id |-> 2, amount |-> -99, category |-> "food",
        transaction_type |-> "expense", date |-> datetime(2024, 5, 11)] >>

\* fixed payments due within and beyond a week of 20 May, one inactive, one
\* of the other user
ScenarioPayments ==
    << [id |-> 1, user_id |-> 1, amount |-> 50, due_day |-> 25,
        is_active |-> TRUE, auto_register |-> FALSE],
       [id |-> 2, user_id |-> 1, amount |-> 50, due_day |-> 27,
        is_active |-> TRUE, auto_register |-> FALSE],
       [id |-> 3, user_id |-> 1, amount |-> 70, due_day |-> 23,
        is_active |-> FALSE, auto_register |-> FALSE],
       [id |-> 4, user_id |-> 2, amount |-> 50, due_day |-> 22,
        is_active |-> TRUE, auto_register |-> FALSE],
       [id |-> 5, user_id |-> 1, amount |-> 50, due_day |-> 29,
        is_active |-> TRUE, auto_register |-> FALSE] >>

\* fixed payments on their due day and at the end of the month, and one whose
\* due_day an update has set to 0
EdgePayments ==
    << [id |-> 1, user_id |-> 1, amount |-> 50, due_day |-> 20,
        is_active |-> TRUE, auto_register |-> FALSE],
       [id |-> 2, user_id |-> 1, amount |-> 50, due_day |-> 31,
        is_active |-> TRUE, auto_register |-> FALSE],
       [id |-> 3, user_id |-> 2, amount |-> 50, due_day |-> 0,
        is_active |-> TRUE, auto_register |-> FALSE] >>

\* budgets of May 2024 under, at and over their spend: one with amount 0,
\* two of one key (stored by two racing creates), one of the other user, and
\* one of a month without transactions
ReadBudgets ==
    << [id |-> 1, user_id |-> 1, category |-> "food", amount |-> 100,
        month |-> 5, year |-> 2024],
       [id |-> 2, user_id |-> 1, category |-> "rent", amount |-> 0,
        month |-> 5, year |-> 2024],
       [id |-> 3, user_id |-> 1, category |-> "food", amount |-> 30,
        month |-> 5, year |-> 2024],
       [id |-> 4, user_id |-> 2, category |-> "food", amount |-> 50,
        month |-> 5, year |-> 2024],
       [id |-> 5, user_id |-> 1, category |-> "rent", amount |-> 50,
        month |-> 12, year |-> 2024] >>

ScenarioNotifications ==
    << [id |-> 1, user_id |-> 1, notification_type |-> "payment_reminder",
        is_read |-> FALSE] >>

ScenarioSettings == << SettingsRow(1, 1, SettingsDefaults) >>

TrendMonths == {0, 1, 2, 6, 24, 25}

CategoryTrendMonths == {0, 1, 6, 12, 13}

\* fixed_payments.py lines 60-83
FixedPaymentsResponse(user, k) ==
    LET result == PaymentsWithStatus(UserPayments(user), k)
    IN  IF ValidationError(result)
        THEN [op |-> "get_fixed_payments", status |-> 500, user |-> user]
        ELSE [op |-> "get_fixed_payments", status |-> 200, user |-> user,
              clock |-> k, payments |-> result]

\* variant: the listing stores what it computed (deactivates the payments
\* it found overdue)
get_fixed_payments_store(user, k) ==
    /\ Idle
    /\ resp' = FixedPaymentsResponse(user, k)
    /\ fixed_payments' =
           [i \in DOMAIN fixed_payments |->
               [fixed_payments[i] EXCEPT !.is_active =
                    @ /\ fixed_payments[i].user_id # user]]
    /\ UNCHANGED <<notifications, notification_settings,
                   now, payment, evalIn, transactions, budgets, nextId, pc>>

get_fixed_payments(user, k) ==
    /\ Idle
    /\ resp' = FixedPaymentsResponse(user, k)
    /\ UNCHANGED <<fixed_payments, notifications, notification_settings,
                   now, payment, evalIn, transactions, budgets, nextId, pc>>

\* analytics.py lines 150-186; months outside 1..24 fail Query(ge=1, le=24)
MonthlyTrendResponse(user, months) ==
    IF months < 1 \/ months > 24
    THEN [op |-> "get_monthly_trend", status |-> 422, user |-> user]
    ELSE [op |-> "get_monthly_trend", status |-> 200, user |-> user,
          months |-> months, trend_data |-> TrendData(TrendRows(user, months))]

get_monthly_trend(user, months) ==
    /\ Idle
    /\ resp' = MonthlyTrendResponse(user, months)
    /\ UNCHANGED <<fixed_payments, notifications, notification_settings,
                   now, payment, evalIn, transactions, budgets, nextId, pc>>

\* analytics.py lines 188-217; months outside 1..12 fail Query(ge=1, le=12)
CategoryTrendResponse(user, category, months) ==
    IF months < 1 \/ months > 12
    THEN [op |-> "get_category_trend", status |-> 422, user |-> user]
    ELSE [op |-> "get_category_trend", status |-> 200, user |-> user,
          category |-> category, months |-> months,
          trend_data |-> CategoryTrendData(CategoryTrendRows(user, category, months))]

get_category_trend(user, category, months) ==
    /\ Idle
    /\ resp' = CategoryTrendResponse(user, category, months)
    /\ UNCHANGED <<fixed_payments, notifications, notification_settings,
                   now, payment, evalIn, transactions, budgets, nextId, pc>>

InitRead ==
    /\ now \in ReadClocks
    /\ transactions \in {ScenarioTransactions, TrendTransactions}
    /\ budgets \in {ScenarioBudgets, ReadBudgets}
    /\ fixed_payments \in {ScenarioPayments, EdgePayments}
    /\ notifications = ScenarioNotifications
    /\ notification_settings = ScenarioSettings
    /\ nextId = [transactions |-> Len(transactions) + 1,
                 budgets |-> Len(budgets) + 1,
                 fixed_payments |-> Len(fixed_payments) + 1,
                 notifications |-> Len(notifications) + 1,
                 notification_settings |-> Len(notification_settings) + 1]
    /\ payment = NoPayment
    /\ evalIn = NoEval
    /\ pc = NoPc
    /\ resp = NoResp

\* the dashboard asked for May 2024 or for the current month
ReadDashboard ==
    \E user \in Users, month_q \in Opt({5}), year_q \in Opt({2024}) :
        \E k \in 0..(2 * Len(ActivePayments(user))) :
            get_dashboard_data(user, month_q, year_q, k)

GetFixedPayments ==
    \E user \in Users :
        \E k \in 0..(2 * Len(UserPayments(user))) : get_fixed_payments(user, k)

MonthlyTrend ==
    \E user \in Users, months \in TrendMonths : get_monthly_trend(user, months)

CategoryTrend ==
    \E user \in Users, category \in Categories, months \in CategoryTrendMonths :
        get_category_trend(user, category, months)

NextRead ==
    \/ ReadDashboard \/ GetBudgets \/ GetFixedPayments
    \/ MonthlyTrend \/ CategoryTrend
    \/ Respond

SpecRead == InitRead /\ [][NextRead]_vars

----------------------------------------------------------------------------
(* Properties of the due-date computation (SpecDue) *)

\* Days of a month of the Gregorian calendar, stated independently of the model
GregorianDays(year, month) ==
    CASE month \in {1, 3, 5, 7, 8, 10, 12} -> 31
      [] month \in {4, 6, 9, 11} -> 30
      [] OTHER -> IF year % 400 = 0 \/ (year % 4 = 0 /\ year % 100 # 0) THEN 29 ELSE 28

Returned == resp.op = "calculate_next_due_date"

InRange == payment.due_day \in 1..31

\* C1: for due_day in 1..31 the returned date is never before now's calendar
\* date, so days_until_due computed against the same now is never negative.
C1_NotBeforeNow ==
    (Returned /\ InRange) =>
        /\ DateDiffDays(resp.next_due, now) >= 0
        /\ DatetimeLE(now, resp.next_due)

\* C1 witness: a December evaluation after the due day, answered with a date
\* of next January
C1_Witness ==
    /\ Returned /\ InRange
    /\ now.month = 12 /\ now.day > payment.due_day
    /\ resp.next_due.year = now.year + 1
    /\ DateDiffDays(resp.next_due, now) > 0

\* C2 as stated: due_day 31 evaluated anywhere in a 30-day month returns day 30.
C2_Original ==
    (Returned /\ payment.due_day = 31 /\ GregorianDays(now.year, now.month) = 30) =>
        resp.next_due.day = 30

\* C2 amended: due_day 31 evaluated on days 1..29 of a 30-day month returns
\* day 30 of that month; evaluated on day 30 itself (any time of day) it
\* returns day 31 of the following month.
C2_Amended ==
    (Returned /\ payment.due_day = 31 /\ GregorianDays(now.year, now.month) = 30) =>
        IF now.day <= 29
        THEN /\ resp.next_due.day = 30
             /\ resp.next_due.month = now.month
             /\ resp.next_due.year = now.year
        ELSE /\ resp.next_due.day = 31
             /\ resp.next_due.month = now.month + 1
             /\ resp.next_due.year = now.year

\* C2 witness: the evaluation on day 30 of a 30-day month, at midnight
C2_Witness ==
    /\ Returned /\ payment.due_day = 31
    /\ GregorianDays(now.year, now.month) = 30
    /\ now.day = 30 /\ now.secs = 0
    /\ resp.next_due.day = 31

\* C3: when the clamped day of now's month is today or earlier (any time of
\* that day, midnight included) the result lies in the following calendar
\* month, January of year + 1 after December; otherwise the result is the
\* clamped day of now's own month.
C3_Rollover ==
    (Returned /\ InRange) =>
        LET day == Min(payment.due_day, GregorianDays(now.year, now.month))
        IN  IF day <= now.day
            THEN IF now.month = 12
                 THEN resp.next_due.month = 1 /\ resp.next_due.year = now.year + 1
                 ELSE resp.next_due.month = now.month + 1
                      /\ resp.next_due.year = now.year
            ELSE resp.next_due = [year |-> now.year, month |-> now.month,
                                  day |-> day, secs |-> 0]

\* C3 witness: the due day itself at midnight in December rolls to January
C3_Witness ==
    /\ Returned /\ InRange
    /\ now.month = 12 /\ now.day = payment.due_day /\ now.secs = 0
    /\ resp.next_due.month = 1 /\ resp.next_due.year = now.year + 1

\* C4: for due_day in 1..31 the returned day of month is min(due_day, days of
\* the returned month), February having 29 days in leap years; due_day 31 at
\* 2024-02-20 gives 2024-02-29, 9 days ahead, status upcoming.
C4_Clamped ==
    (Returned /\ InRange) =>
        /\ resp.next_due.day =
               Min(payment.due_day, GregorianDays(resp.next_due.year, resp.next_due.month))
        /\ (payment.due_day = 31 /\ now.year = 2024 /\ now.month = 2 /\ now.day = 20) =>
               /\ resp.next_due = [year |-> 2024, month |-> 2, day |-> 29, secs |-> 0]
               /\ DateDiffDays(resp.next_due, now) = 9
               /\ get_payment_status(payment.is_active,
                                     DateDiffDays(resp.next_due, now)) = "upcoming"

\* C4 witness: the leap-year scenario
C4_Witness ==
    /\ Returned /\ payment.due_day = 31
    /\ now.year = 2024 /\ now.month = 2 /\ now.day = 20
    /\ resp.next_due.day = 29 /\ resp.next_due.month = 2

----------------------------------------------------------------------------
(* Properties of the status classifiers (SpecEval) *)

\* C5: get_payment_status is total and decides in priority order: inactive,
\* then overdue (< 0), due (= 0), warning (1 or 2), upcoming (3 or more).
C5_PaymentStatus ==
    resp.op = "get_payment_status" =>
        LET d == evalIn.days_until_due
        IN  /\ resp.status \in {"inactive", "overdue", "due", "warning", "upcoming"}
            /\ resp.status = "inactive" <=> ~evalIn.is_active
            /\ evalIn.is_active =>
                 /\ resp.status = "overdue" <=> d < 0
                 /\ resp.status = "due" <=> d = 0
                 /\ resp.status = "warning" <=> d \in {1, 2}
                 /\ resp.status = "upcoming" <=> d >= 3

\* C5 witness: an active payment two days ahead is a warning
C5_Witness ==
    /\ resp.op = "get_payment_status"
    /\ evalIn.is_active /\ evalIn.days_until_due = 2
    /\ resp.status = "warning"

\* C6: with limit > 0 the status is exceeded iff spent*100 >= 100*limit,
\* warning iff 80*limit <= spent*100 < 100*limit, normal otherwise; with
\* limit <= 0 the percentage is 0, the status normal and nothing is raised.
C6_BudgetStatus ==
    resp.op = "calculate_budget_status" =>
        LET limit == evalIn.amount
            spent == evalIn.spent_amount
        IN  /\ resp.status \in {"exceeded", "warning", "normal"}
            /\ limit > 0 =>
                 /\ resp.status = "exceeded" <=> spent * 100 >= 100 * limit
                 /\ resp.status = "warning" <=>
                        (80 * limit <= spent * 100 /\ spent * 100 < 100 * limit)
                 /\ resp.percentage.num * limit = spent * 100 * resp.percentage.den
            /\ limit <= 0 =>
                 /\ resp.percentage.den # 0
                 /\ resp.percentage.num = 0
                 /\ resp.status = "normal"

\* C6 witness: exactly 80% of the limit is a warning
C6_Witness ==
    /\ resp.op = "calculate_budget_status"
    /\ evalIn.amount = 5 /\ evalIn.spent_amount = 4
    /\ resp.status = "warning"

----------------------------------------------------------------------------
(* Properties of the dashboard aggregates (Spec) *)

RECURSIVE AmountOver(_)
\* sum of the amounts of the stored transactions at the indices I
AmountOver(I) ==
    IF I = {} THEN 0
    ELSE LET i == CHOOSE i \in I : TRUE
         IN  transactions[i].amount + AmountOver(I \ {i})

RECURSIVE BreakdownAmount(_)
BreakdownAmount(entries) ==
    IF entries = {} THEN 0
    ELSE LET e == CHOOSE e \in entries : TRUE
         IN  e.amount + BreakdownAmount(entries \ {e})

RECURSIVE BreakdownPercent(_, _)
\* sum of the percentages of the entries, as a numerator over den
BreakdownPercent(entries, den) ==
    IF entries = {} THEN 0
    ELSE LET e == CHOOSE e \in entries : TRUE
         IN  e.percentage.num * (den \div e.percentage.den)
             + BreakdownPercent(entries \ {e}, den)

DashboardReturned == resp.op = "get_dashboard_data"

\* C7: monthly_analysis of user U for a period is the sum of U's income
\* amounts, the absolute value of the sum of U's expense amounts (>= 0),
\* their difference, and the number of U's transactions in the period;
\* other users and other periods contribute nothing.  The worked example
\* gives 1000, 80, 920, 3.
C7_MonthlyAnalysis ==
    DashboardReturned =>
        LET mine == {i \in DOMAIN transactions :
                        /\ transactions[i].user_id = resp.user
                        /\ transactions[i].date.month = resp.month
                        /\ transactions[i].date.year = resp.year}
            income == {i \in mine : transactions[i].transaction_type = "income"}
            expense == {i \in mine : transactions[i].transaction_type = "expense"}
            a == resp.monthly_analysis
        IN  /\ a.total_income = AmountOver(income)
            /\ a.total_expenses = Abs(AmountOver(expense))
            /\ a.total_expenses >= 0
            /\ a.balance = a.total_income - a.total_expenses
            /\ a.transactions_count = Cardinality(mine)
            /\ (transactions = ScenarioTransactions
                /\ resp.user = 1 /\ resp.month = 5 /\ resp.year = 2024) =>
                   a = [total_income |-> 1000, total_expenses |-> 80,
                        balance |-> 920, transactions_count |-> 3]

\* C7 witness: the dashboard of May 2024 for the worked example
C7_Witness ==
    /\ DashboardReturned
    /\ transactions = ScenarioTransactions
    /\ resp.user = 1 /\ resp.month = 5 /\ resp.year = 2024
    /\ resp.monthly_analysis.balance = 920

\* C8: the amounts of category_breakdown sum to total_expenses, so the
\* percentages sum to 100 when total_expenses > 0, and every percentage is 0
\* when total_expenses = 0.
C8_BreakdownSums ==
    DashboardReturned =>
        LET total == resp.monthly_analysis.total_expenses
            entries == resp.category_breakdown
        IN  /\ BreakdownAmount(entries) = total
            /\ total > 0 => BreakdownPercent(entries, total) = 100 * total
            /\ total = 0 => \A e \in entries : e.percentage.num = 0

----------------------------------------------------------------------------
(* Properties of the budget handlers (SpecBudget, SpecRace) *)

SameKey(a, b) ==
    /\ a.user_id = b.user_id
    /\ a.category = b.category
    /\ a.month = b.month
    /\ a.year = b.year

KeyStored(user, body) ==
    \E i \in DOMAIN budgets :
        SameKey(budgets[i], [user_id |-> user, category |-> body.category,
                             month |-> body.month, year |-> body.year])

BudgetsUnique ==
    \A i, j \in DOMAIN budgets : i # j => ~SameKey(budgets[i], budgets[j])

\* C9: handled one at a time, a create_budget whose (user, category, month,
\* year) is already stored answers with a client error and leaves the stored
\* budgets as they were; no two stored budgets ever share that key.
C9_DuplicateRejected ==
    /\ [][\A user \in Users, body \in BudgetCreate :
            (create_budget(user, body) /\ KeyStored(user, body)) =>
                (resp'.status = 400 /\ budgets' = budgets)]_vars
    /\ []BudgetsUnique

\* C9 witness: a duplicate create was answered 400 while a budget is stored
C9_Witness ==
    /\ resp.op = "create_budget" /\ resp.status = 400
    /\ Len(budgets) >= 1

\* C10: with the query and commit steps of concurrent create_budget requests
\* interleaved in any order, at most one budget per (user, category, month,
\* year) is ever stored.
C10_UniqueUnderRace ==
    \A i \in DOMAIN budgets : \A j \in DOMAIN budgets :
        (budgets[i].id # budgets[j].id) => ~SameKey(budgets[i], budgets[j])

----------------------------------------------------------------------------
(* Properties of the notification settings (SpecSettings) *)

\* C11: whatever the interleaving of the lookups and commits of
\* get_notification_settings and update_notification_settings, a user never
\* has more than one notification_settings row.
C11_OneSettingsRow ==
    \A user \in Users : Cardinality(UserSettings(user)) <= 1

\* C14: update_notification_settings on an existing row leaves every flag
\* that the request does not provide at its stored value.
C14_AbsentFlagsKept ==
    [][\A r \in Requests :
          (update_notification_settings(r) /\ pc[r].found # NoSettings) =>
              \A i \in DOMAIN notification_settings :
                  \A f \in Flags :
                      (notification_settings[i].id = pc[r].found.id
                       /\ pc[r].body[f] = <<>>) =>
                          notification_settings'[i][f] = notification_settings[i][f]]_vars

----------------------------------------------------------------------------
(* Properties of the writing handlers (SpecCrud) *)

\* C12: every stored fixed payment has due_day in 1..31.
C12_DueDayInRange ==
    \A i \in DOMAIN fixed_payments : fixed_payments[i].due_day \in 1..31

\* the row with this id belongs to this user
Stored(table, id, user) ==
    \E i \in DOMAIN table : table[i].id = id /\ table[i].user_id = user

IndexOf(table, id) == CHOOSE i \in DOMAIN table : table[i].id = id

\* a provided field has the provided value, every other field its old value
FieldsAsRequested(old, new, upd) ==
    /\ DOMAIN new = DOMAIN old
    /\ \A f \in DOMAIN old :
           IF f \in DOMAIN upd /\ upd[f] # <<>>
           THEN new[f] = upd[f][1]
           ELSE new[f] = old[f]

\* same rows, in the same places, except possibly the i-th
RowsKeptExcept(old, new, i) ==
    /\ Len(new) = Len(old)
    /\ \A j \in DOMAIN old : j # i => new[j] = old[j]

AllTables == <<transactions, budgets, fixed_payments, notifications, notification_settings>>

\* C15: an update or delete whose id is not a record of the caller answers
\* 404 and leaves every table as it was.
C15_NotFound ==
    [][\A user \in Users :
          /\ \A id \in 1..nextId.transactions :
                 (/\ ~Stored(transactions, id, user)
                  /\ \/ \E upd \in TransactionUpdate : update_transaction(user, id, upd)
                     \/ delete_transaction(user, id)) =>
                     (resp'.status = 404 /\ UNCHANGED AllTables)
          /\ \A id \in 1..nextId.budgets :
                 (/\ ~Stored(budgets, id, user)
                  /\ \/ \E upd \in BudgetUpdate : update_budget(user, id, upd)
                     \/ delete_budget(user, id)) =>
                     (resp'.status = 404 /\ UNCHANGED AllTables)
          /\ \A id \in 1..nextId.fixed_payments :
                 (/\ ~Stored(fixed_payments, id, user)
                  /\ \/ \E upd \in FixedPaymentUpdate :
                            update_fixed_payment(user, id, upd)
                     \/ delete_fixed_payment(user, id)) =>
                     (resp'.status = 404 /\ UNCHANGED AllTables)]_vars

\* a delete answered 404 while the only stored fixed payments are another
\* user's
C15_Witness ==
    /\ resp.op = "delete_fixed_payment"
    /\ resp.status = 404
    /\ fixed_payments # <<>>
    /\ \A i \in DOMAIN fixed_payments : fixed_payments[i].user_id # resp.user

\* the rows of a table that are not this user's
OtherRows(table, user) == SelectSeq(table, LAMBDA row : row.user_id # user)

\* some writing handler runs for this user
WriteBy(user) ==
    \/ \E body \in TransactionCreate : create_transaction(user, body)
    \/ \E id \in 1..nextId.transactions, upd \in TransactionUpdate :
           update_transaction(user, id, upd)
    \/ \E id \in 1..nextId.transactions : delete_transaction(user, id)
    \/ \E body \in BudgetCreate : create_budget(user, body)
    \/ \E id \in 1..nextId.budgets, upd \in BudgetUpdate : update_budget(user, id, upd)
    \/ \E id \in 1..nextId.budgets : delete_budget(user, id)
    \/ \E body \in FixedPaymentCreate : create_fixed_payment(user, body)
    \/ \E id \in 1..nextId.fixed_payments, upd \in FixedPaymentUpdate :
           update_fixed_payment(user, id, upd)
    \/ \E id \in 1..nextId.fixed_payments : delete_fixed_payment(user, id)
    \/ \E body \in NotificationCreate : create_notification(user, body)

\* C16: a write of user U adds, changes and removes only rows whose user_id
\* is U: the rows of every other user are the same before and after.
C16_WritesOwnRows ==
    [][\A user \in Users :
          WriteBy(user) =>
              /\ OtherRows(transactions', user) = OtherRows(transactions, user)
              /\ OtherRows(budgets', user) = OtherRows(budgets, user)
              /\ OtherRows(fixed_payments', user) = OtherRows(fixed_payments, user)
              /\ OtherRows(notifications', user) = OtherRows(notifications, user)]_vars

----------------------------------------------------------------------------
(* Properties of the reading handlers (SpecRead) *)

\* the place of the i-th stored fixed payment in the dashboard's loop over
\* the caller's active payments
LoopPlace(i) ==
    Cardinality({j \in 1..i : /\ fixed_payments[j].user_id = fixed_payments[i].user_id
                              /\ fixed_payments[j].is_active})

\* days_until_due of the i-th stored fixed payment as the dashboard that
\* answered with clock k computed it
DashboardDays(i, k) ==
    DateDiffDays(calculate_next_due_date(fixed_payments[i].due_day,
                                         Read(2 * LoopPlace(i) - 1, k)),
                 Read(2 * LoopPlace(i), k))

\* C17: upcoming_payments of the dashboard holds exactly the caller's active
\* fixed payments whose days_until_due is at most 7, each once, however small
\* days_until_due is; never an inactive one or another user's.
C17_UpcomingPayments ==
    (resp.op = "get_dashboard_data" /\ resp.status = 200) =>
        LET upcoming == resp.upcoming_payments
        IN  /\ \A n \in DOMAIN upcoming :
                   /\ \E i \in DOMAIN fixed_payments :
                          /\ fixed_payments[i] = upcoming[n].payment
                          /\ upcoming[n].days_until_due = DashboardDays(i, resp.clock)
                   /\ upcoming[n].payment.user_id = resp.user
                   /\ upcoming[n].payment.is_active
                   /\ upcoming[n].days_until_due <= 7
            /\ \A n, m \in DOMAIN upcoming :
                   n # m => upcoming[n].payment.id # upcoming[m].payment.id
            /\ \A i \in DOMAIN fixed_payments :
                   (/\ fixed_payments[i].user_id = resp.user
                    /\ fixed_payments[i].is_active
                    /\ DashboardDays(i, resp.clock) <= 7) =>
                       \E n \in DOMAIN upcoming : upcoming[n].payment = fixed_payments[i]

\* a dashboard that lists two of the caller's payments, one of them due in
\* exactly 7 days, and leaves out a later one, an inactive one and another
\* user's
C17_Witness ==
    /\ resp.op = "get_dashboard_data"
    /\ resp.status = 200
    /\ Len(resp.upcoming_payments) = 2
    /\ \E n \in DOMAIN resp.upcoming_payments :
           resp.upcoming_payments[n].days_until_due = 7
    /\ \E i \in DOMAIN fixed_payments :
           /\ fixed_payments[i].user_id = resp.user
           /\ fixed_payments[i].is_active
           /\ DashboardDays(i, resp.clock) > 7
    /\ \E i \in DOMAIN fixed_payments :
           fixed_payments[i].user_id = resp.user /\ ~fixed_payments[i].is_active
    /\ \E i \in DOMAIN fixed_payments : fixed_payments[i].user_id # resp.user

\* the caller's transactions dated inside the window that ends at now
WindowRows(user, months) ==
    SelectSeq(transactions, LAMBDA r :
        /\ r.user_id = user
        /\ SinceStart(r, months)
        /\ DatetimeLE(r.date, now))

\* C18: the monthly trend over N months is built from the caller's
\* transactions dated inside the window that ends at now, none dated after
\* now, and has at most N keys.
C18_WindowOnly ==
    (resp.op = "get_monthly_trend" /\ resp.status = 200) =>
        /\ resp.trend_data = TrendData(WindowRows(resp.user, resp.months))
        /\ Cardinality(DOMAIN resp.trend_data) <= resp.months

\* the answer held in resp is the one the same request computes from the
\* tables and the clock of this state
Recomputed ==
    /\ resp.op = "get_dashboard_data" =>
           \E month_q \in Opt({5}), year_q \in Opt({2024}) :
               \E k \in 0..(2 * Len(ActivePayments(resp.user))) :
                   resp = DashboardData(resp.user, month_q, year_q, k)
    /\ resp.op = "get_budgets" =>
           \E month_q \in QueryMonths, year_q \in Opt({2024}) :
               resp = BudgetsResponse(resp.user, month_q, year_q)
    /\ resp.op = "get_fixed_payments" =>
           \E k \in 0..(2 * Len(UserPayments(resp.user))) :
               resp = FixedPaymentsResponse(resp.user, k)
    /\ resp.op = "get_monthly_trend" =>
           \E months \in TrendMonths : resp = MonthlyTrendResponse(resp.user, months)
    /\ resp.op = "get_category_trend" =>
           \E category \in Categories, months \in CategoryTrendMonths :
               resp = CategoryTrendResponse(resp.user, category, months)

\* some reading handler runs for this user
ReadBy(user) ==
    \/ \E month_q \in Opt({5}), year_q \in Opt({2024}) :
           \E k \in 0..(2 * Len(ActivePayments(user))) :
               get_dashboard_data(user, month_q, year_q, k)
    \/ \E month_q \in QueryMonths, year_q \in Opt({2024}) :
           get_budgets(user, month_q, year_q)
    \/ \E k \in 0..(2 * Len(UserPayments(user))) : get_fixed_payments(user, k)
    \/ \E months \in TrendMonths : get_monthly_trend(user, months)
    \/ \E category \in Categories, months \in CategoryTrendMonths :
           get_category_trend(user, category, months)

\* C19: dashboard, monthly trend, category trend, get_budgets and
\* get_fixed_payments leave every row of every table as it was, so the
\* answer a handler gave is the answer the same request computes from the
\* state it leaves.
C19_ReadsChangeNothing ==
    /\ [][\A user \in Users : ReadBy(user) => UNCHANGED <<AllTables, nextId>>]_vars
    /\ []Recomputed

\* a listing of several fixed payments answered over non-empty tables
C19_Witness ==
    /\ resp.op = "get_fixed_payments"
    /\ resp.status = 200
    /\ Len(resp.payments) >= 2
    /\ transactions # <<>>
    /\ budgets # <<>>
    /\ notifications # <<>>
    /\ notification_settings # <<>>

----------------------------------------------------------------------------
(* Properties of the reported days_until_due (SpecDue) *)

\* the loop body ran for a payment with due_day in 1..31 and both clock reads
\* fell on the same calendar day
SameDayEntry ==
    /\ resp.op = "payment_with_status"
    /\ payment.due_day \in 1..31
    /\ resp.t2.year = now.year /\ resp.t2.month = now.month /\ resp.t2.day = now.day

\* C20: with both clock reads on one calendar day, a payment with due_day in
\* 1..31 is reported with 1 <= days_until_due <= 31, never as due or overdue,
\* and on its own due day with a date in the following month.
C20_SameDayRange ==
    SameDayEntry =>
        /\ resp.entry.days_until_due \in 1..31
        /\ resp.entry.status \notin {"due", "overdue"}
        /\ now.day = Min(payment.due_day, monthrange(now.year, now.month)) =>
               /\ resp.entry.next_due.year =
                      (IF now.month = 12 THEN now.year + 1 ELSE now.year)
               /\ resp.entry.next_due.month = (IF now.month = 12 THEN 1 ELSE now.month + 1)

\* a payment evaluated at noon of its own due day, reported 31 days ahead
C20_Witness ==
    /\ SameDayEntry
    /\ now.day = payment.due_day
    /\ now.secs = 43200
    /\ resp.entry.days_until_due = 31
    /\ resp.entry.status = "upcoming"

\* C21: for a payment with due_day in 1..31, whether the second clock read
\* falls on the day of the first or midnight (and with it a month or a year
\* boundary) passes in between, days_until_due is at least 0 and the status
\* is never overdue.
C21_NeverOverdue ==
    (resp.op = "payment_with_status" /\ payment.due_day \in 1..31) =>
        /\ resp.entry.days_until_due >= 0
        /\ resp.entry.status # "overdue"

\* a payment due on 1 January, evaluated at noon of 31 December with the
\* subtraction after midnight: reported due today
C21_Witness ==
    /\ resp.op = "payment_with_status"
    /\ payment.due_day = 1
    /\ now.month = 12 /\ now.day = 31 /\ now.secs = 43200
    /\ resp.t2.year = now.year + 1 /\ resp.t2.month = 1 /\ resp.t2.day = 1
    /\ resp.entry.days_until_due = 0
    /\ resp.entry.status = "due"

----------------------------------------------------------------------------
(* Properties of the budget lists (SpecRead) *)

\* the stored expense transactions of a user and a category in a period
ExpenseIndices(user, category, month, year) ==
    {i \in DOMAIN transactions :
        /\ transactions[i].user_id = user
        /\ transactions[i].category = category
        /\ transactions[i].transaction_type = "expense"
        /\ transactions[i].date.month = month
        /\ transactions[i].date.year = year}

\* an entry of a budget list built for a user and a period: its spend is the
\* absolute sum of the user's expenses of the category in the period, and its
\* status is the classification of its percentage at 80 and 100
EntryAsSpecified(e, user, month, year) ==
    /\ e.budget.user_id = user /\ e.budget.month = month /\ e.budget.year = year
    /\ e.spent_amount =
           Abs(AmountOver(ExpenseIndices(user, e.budget.category, month, year)))
    /\ e.percentage.den > 0
    /\ e.status = (IF e.percentage.num >= 100 * e.percentage.den THEN "exceeded"
                   ELSE IF e.percentage.num >= 80 * e.percentage.den THEN "warning"
                   ELSE "normal")

====
